---------------------------- MODULE Spec2Model ----------------------------
(***************************************************************************)
(* State-machine model of the multi-tenant backend (users, tenants,        *)
(* folders, devices, tags, refresh tokens).  The persistent store is the   *)
(* only shared state; every request handler is an action over it.          *)
(***************************************************************************)
EXTENDS Integers, Sequences, FiniteSets, TLC

VARIABLES
    users,      \* table user:   id -> [username, hashed_password, role_id, entity_id]
    tenants,    \* table tenant: id -> [name, entity_id]
    members,    \* table tenants_and_users: set of <<tenant_id, user_id>>
    folders,    \* table folder: id -> [name, tenant_id, parent_id, entity_id]
    devices,    \* table device: id -> [name, folder_id, entity_id]
    entities,   \* table entity: set of ids
    tags,       \* table tag:    id -> [name, tenant_id]
    entityTags, \* table entities_and_tags: set of <<entity_id, tag_id>>
    tokens,     \* table refresh_token: sequence of rows, row id = index
    req,        \* per client: the request in flight and where it stands
    resp,       \* outcome of the last completed handler step
    rotations,  \* history: the successful rotations, [old, new]
    loggedOut,  \* history: token values on which a logout succeeded
    reused      \* history: token values re-presented to rotate after being rotated away

vars == <<users, tenants, members, folders, devices, entities, tags,
          entityTags, tokens, req, resp, rotations, loggedOut, reused>>

dbVars   == <<users, tenants, members, folders, devices, entities, tags, entityTags>>
authVars == <<tokens, req, rotations, loggedOut, reused>>

-----------------------------------------------------------------------------
(* Bounds of the model *)

MaxTokens == 3
MaxUsers == 2

Clients == {"c1", "c2"}

NULL == 0

\* None where a string is expected
NULL_STR == "None"

-----------------------------------------------------------------------------
(* Generic table helpers *)

Max(S) == CHOOSE x \in S : \A y \in S : y <= x

Min(S) == CHOOSE x \in S : \A y \in S : x <= y

\* sqlite integer primary key: the next row id is the largest one plus one
NextId(table) == IF DOMAIN table = {} THEN 1 ELSE Max(DOMAIN table) + 1

Insert(table, id, row) == [i \in DOMAIN table \cup {id} |-> IF i = id THEN row ELSE table[i]]

Delete(table, id) == [i \in DOMAIN table \ {id} |-> table[i]]

\* the store a session works on: one field per table
Db == [users |-> users, tenants |-> tenants, members |-> members,
       folders |-> folders, devices |-> devices, entities |-> entities,
       tags |-> tags, entityTags |-> entityTags]

EmptyDb == [users |-> <<>>, tenants |-> <<>>, members |-> {}, folders |-> <<>>,
            devices |-> <<>>, entities |-> {}, tags |-> <<>>, entityTags |-> {}]

\* the store after the request: what the session committed
Commit(db) ==
    /\ users' = db.users
    /\ tenants' = db.tenants
    /\ members' = db.members
    /\ folders' = db.folders
    /\ devices' = db.devices
    /\ entities' = db.entities
    /\ tags' = db.tags
    /\ entityTags' = db.entityTags

Response(op, arg, result, out) ==
    [op |-> op, arg |-> arg, result |-> result, out |-> out]

\* what a service call gives back: the store it leaves, the exception it raised
\* ("ok" when none) and its return value
Result(db, error, out) == [db |-> db, error |-> error, out |-> out]

-----------------------------------------------------------------------------
(* Roles *)

ADMIN_ROLE_ID == 1

\* table role: id -> name, ordered tiers admin > owner > user
roles == [r \in {1, 2, 3} |-> CASE r = 1 -> "admin" [] r = 2 -> "owner" [] OTHER -> "user"]

-----------------------------------------------------------------------------
(* Passwords: character sequences, hashed with a salted one-way scheme *)

PwGood   == <<"s", "3", "c", "r", "3", "t", "p", "w">>
PwOther  == <<"0", "t", "h", "3", "r", "p", "w", "d">>
PwShort  == <<"1", "2", "3">>
PwPadded == <<" ", "1", "2", "3", "4", "5", " ", " ">>

Passwords == {PwGood, PwOther, PwShort, PwPadded}

Usernames == {"a@sia.com", "b@sia.com"}

get_password_hash(password) == [scheme |-> "bcrypt", digest |-> password]

verify_password(plain_password, hashed_password) ==
    hashed_password = get_password_hash(plain_password)

RECURSIVE lstrip(_)
lstrip(s) == IF s # <<>> /\ Head(s) = " " THEN lstrip(Tail(s)) ELSE s

RECURSIVE rstrip(_)
rstrip(s) == IF s # <<>> /\ s[Len(s)] = " " THEN rstrip(SubSeq(s, 1, Len(s) - 1)) ELSE s

strip(s) == rstrip(lstrip(s))

MIN_PASSWORD_LEN == 8

\* "ok" or the name of the exception raised
check_invalid_password(password) ==
    IF Len(strip(password)) >= MIN_PASSWORD_LEN THEN "ok" ELSE "UserInvalidPassword"

check_username_exists(db, username, user_id) ==
    LET found == {u \in DOMAIN db.users : db.users[u].username = username}
    IN  IF found = {} THEN "ok"
        ELSE LET user == Min(found)
             IN  IF user_id # NULL /\ user_id # user THEN "UsernameTaken"
                 ELSE IF user_id = NULL THEN "UsernameTaken"
                 ELSE "ok"

check_user_exists(db, user_id) ==
    IF user_id \in DOMAIN db.users THEN "ok" ELSE "UserNotFound"

check_role_exists(role_id) == IF role_id \in DOMAIN roles THEN "ok" ELSE "RoleNotFound"

check_tenant_exists(db, tenant_id) ==
    IF tenant_id \in DOMAIN db.tenants THEN "ok" ELSE "TenantNotFound"

\* allocates a fresh identity row and commits it: the store and the new id
create_entity_auto(db) ==
    LET id == IF db.entities = {} THEN 1 ELSE Max(db.entities) + 1
    IN  Result([db EXCEPT !.entities = @ \cup {id}], "ok", id)

-----------------------------------------------------------------------------
(* user service: creation, roles, memberships *)

\* the creation that stores the admin role
create_user_as_admin(db, username, password) ==
    LET taken == check_username_exists(db, username, NULL)
        bad   == check_invalid_password(password)
        entity == create_entity_auto(db)
        id == NextId(db.users)
    IN  IF taken # "ok" THEN Result(db, taken, NULL)
        ELSE IF bad # "ok" THEN Result(db, bad, NULL)
        ELSE Result([entity.db EXCEPT !.users =
                        Insert(@, id, [username |-> username,
                                       hashed_password |-> get_password_hash(password),
                                       role_id |-> ADMIN_ROLE_ID,
                                       entity_id |-> entity.out])],
                    "ok", id)

\* the creation that skips the username check
create_user_unchecked(db, username, password) ==
    LET bad   == check_invalid_password(password)
        default_role == CHOOSE r \in DOMAIN roles : roles[r] = "user"
        entity == create_entity_auto(db)
        id == NextId(db.users)
    IN  IF bad # "ok" THEN Result(db, bad, NULL)
        ELSE Result([entity.db EXCEPT !.users =
                        Insert(@, id, [username |-> username,
                                       hashed_password |-> get_password_hash(password),
                                       role_id |-> default_role,
                                       entity_id |-> entity.out])],
                    "ok", id)

create_user(db, username, password) ==
    LET taken == check_username_exists(db, username, NULL)
        bad   == check_invalid_password(password)
        default_role == CHOOSE r \in DOMAIN roles : roles[r] = "user"
        entity == create_entity_auto(db)
        id == NextId(db.users)
    IN  IF taken # "ok" THEN Result(db, taken, NULL)
        ELSE IF bad # "ok" THEN Result(db, bad, NULL)
        ELSE Result([entity.db EXCEPT !.users =
                        Insert(@, id, [username |-> username,
                                       hashed_password |-> get_password_hash(password),
                                       role_id |-> default_role,
                                       entity_id |-> entity.out])],
                    "ok", id)

\* patch is [username, password, role_id, tags] with NULL_STR, <<>>, NULL and
\* {} for the fields the caller left unset (a key the schema does not declare,
\* such as tag_ids, is dropped and leaves the field unset). The fields that
\* are set are the values of one UPDATE on the user row: tags is no column of
\* it, so a patch that sets tags makes the statement fail with nothing written
update_user(db, user_id, patch) ==
    LET e1 == check_user_exists(db, user_id)
        e2 == check_username_exists(db, patch.username, user_id)
        e3 == IF patch.password # <<>> THEN check_invalid_password(patch.password) ELSE "ok"
        old == db.users[user_id]
        new == [old EXCEPT
                    !.username = IF patch.username # NULL_STR THEN patch.username ELSE @,
                    !.hashed_password = IF patch.password # <<>>
                                        THEN get_password_hash(patch.password) ELSE @,
                    !.role_id = IF patch.role_id # NULL THEN patch.role_id ELSE @]
    IN  IF e1 # "ok" THEN Result(db, e1, NULL)
        ELSE IF e2 # "ok" THEN Result(db, e2, NULL)
        ELSE IF e3 # "ok" THEN Result(db, e3, NULL)
        ELSE IF patch.tags # {} THEN Result(db, "StatementError", NULL)
        ELSE Result([db EXCEPT !.users[user_id] = new], "ok", user_id)

assign_role(db, user_id, role_id) ==
    LET e1 == check_user_exists(db, user_id)
        e2 == check_role_exists(role_id)
    IN  IF e1 # "ok" THEN Result(db, e1, NULL)
        ELSE IF e2 # "ok" THEN Result(db, e2, NULL)
        ELSE Result([db EXCEPT !.users[user_id].role_id = role_id], "ok", role_id)

assign_tenant(db, user_id, tenant_id) ==
    LET e1 == check_user_exists(db, user_id)
        e2 == check_tenant_exists(db, tenant_id)
    IN  IF e1 # "ok" THEN Result(db, e1, NULL)
        ELSE IF e2 # "ok" THEN Result(db, e2, NULL)
        ELSE Result([db EXCEPT !.members = @ \cup {<<tenant_id, user_id>>}], "ok", tenant_id)

-----------------------------------------------------------------------------
(* auth utils *)

\* the user row with this username, NULL when there is none
get_user_by_username(db, username) ==
    LET found == {u \in DOMAIN db.users : db.users[u].username = username}
    IN  IF found = {} THEN NULL ELSE Min(found)

\* [error, user]: the exception raised ("ok" when none) and the user found
authenticate_user(db, username, password) ==
    LET user == get_user_by_username(db, username)
    IN  IF user = NULL THEN [error |-> "UserNotFound", user |-> NULL]
        ELSE IF ~verify_password(password, db.users[user].hashed_password)
             THEN [error |-> "IncorrectUserOrPassword", user |-> NULL]
             ELSE [error |-> "ok", user |-> user]

create_access_token(user) == [sub |-> user]

-----------------------------------------------------------------------------
(* auth service and dependencies: refresh-token store *)

TokenValues == 1 .. MaxTokens

Issued == 1 .. Len(tokens)

\* a row is active while not revoked, not superseded and not expired
IsActive(row) == ~row.revoked /\ row.replaced_by = NULL /\ ~row.expired

\* lookup of a presented value: found, not revoked, not superseded, not expired
valid_refresh_token(value) == value \in Issued /\ IsActive(tokens[value])

valid_refresh_token_user(value) == tokens[value].user_id

NewToken(user_id) ==
    [user_id |-> user_id, revoked |-> FALSE, replaced_by |-> NULL, expired |-> FALSE]

\* issuing without the compare-and-swap on the presented token
create_refresh_token_no_cas(user_id, refresh_token) ==
    LET new == Len(tokens) + 1
    IN  IF refresh_token = NULL
        THEN [error |-> "ok", value |-> new,
              tokens |-> Append(tokens, NewToken(user_id))]
        ELSE [error |-> "ok", value |-> new,
              tokens |-> Append([tokens EXCEPT ![refresh_token].replaced_by = new],
                                NewToken(user_id))]

\* the store after issuing a token for user_id; with a presented token, the
\* lookup-and-invalidate of that token is one atomic compare-and-swap:
\* [error, tokens, value]
create_refresh_token(user_id, refresh_token) ==
    LET new == Len(tokens) + 1
    IN  IF refresh_token = NULL
        THEN [error |-> "ok", value |-> new,
              tokens |-> Append(tokens, NewToken(user_id))]
        ELSE IF ~IsActive(tokens[refresh_token])
        THEN [error |-> "InvalidRefreshToken", value |-> NULL, tokens |-> tokens]
        ELSE [error |-> "ok", value |-> new,
              tokens |-> Append([tokens EXCEPT ![refresh_token].replaced_by = new],
                                NewToken(user_id))]

\* the presented token and every token that followed it in its chain
RECURSIVE Chain(_, _)
Chain(toks, t) ==
    IF t = NULL THEN {} ELSE {t} \cup Chain(toks, toks[t].replaced_by)

\* the store after revoking the presented token and the remainder of its chain
expire_refresh_token(value) ==
    [t \in DOMAIN tokens |->
        IF t \in Chain(tokens, value) THEN [tokens[t] EXCEPT !.revoked = TRUE]
        ELSE tokens[t]]

Idle == [pc |-> "idle", tok |-> NULL, user |-> NULL]

\* a rotation of this token value has succeeded
Rotated(value) == \E x \in rotations : x.old = value

-----------------------------------------------------------------------------
(* auth router *)

\* POST /auth/register
register_user(username, password) ==
    LET made == create_user(Db, username, password)
    IN  /\ made.error = "ok" => Cardinality(DOMAIN users) < MaxUsers
        /\ Commit(made.db)
        /\ resp' = Response("register_user", username, made.error, made.out)
        /\ UNCHANGED authVars

\* POST /auth/token
login(c, username, password) ==
    LET auth == authenticate_user(Db, username, password)
        made == create_refresh_token(auth.user, NULL)
    IN  /\ req[c].pc = "idle"
        /\ IF auth.error # "ok"
           THEN /\ resp' = Response("login", NULL, auth.error, NULL)
                /\ UNCHANGED tokens
           ELSE /\ Len(tokens) < MaxTokens
                /\ tokens' = made.tokens
                /\ resp' = Response("login", NULL, "ok",
                                    [access_token |-> create_access_token(auth.user),
                                     refresh_token |-> made.value])
        /\ UNCHANGED <<req, rotations, loggedOut, reused>>
        /\ UNCHANGED dbVars

\* PUT /auth/token, dependencies that treat a re-presented token as a reuse
\* signal and revoke its whole chain
refresh_tokens_deps_revokes_chain(c, value) ==
    /\ req[c].pc = "idle"
    /\ IF valid_refresh_token(value)
       THEN /\ req' = [req EXCEPT ![c] = [pc |-> "refresh_tokens", tok |-> value,
                                          user |-> valid_refresh_token_user(value)]]
            /\ UNCHANGED <<resp, reused, tokens>>
       ELSE /\ resp' = Response("refresh_tokens", value, "InvalidRefreshToken", NULL)
            /\ reused' = IF Rotated(value) THEN reused \cup {value} ELSE reused
            /\ tokens' = IF Rotated(value) THEN expire_refresh_token(value) ELSE tokens
            /\ UNCHANGED req
    /\ UNCHANGED <<rotations, loggedOut>>
    /\ UNCHANGED dbVars

\* PUT /auth/token, resolution of the dependencies valid_refresh_token and
\* valid_refresh_token_user
refresh_tokens_deps(c, value) ==
    /\ req[c].pc = "idle"
    /\ IF valid_refresh_token(value)
       THEN /\ req' = [req EXCEPT ![c] = [pc |-> "refresh_tokens", tok |-> value,
                                          user |-> valid_refresh_token_user(value)]]
            /\ UNCHANGED <<resp, reused>>
       ELSE /\ resp' = Response("refresh_tokens", value, "InvalidRefreshToken", NULL)
            /\ reused' = IF Rotated(value) THEN reused \cup {value} ELSE reused
            /\ UNCHANGED req
    /\ UNCHANGED <<tokens, rotations, loggedOut>>
    /\ UNCHANGED dbVars

\* PUT /auth/token, the handler body called without the presented token
refresh_tokens_forgets_old(c) ==
    LET refresh_token == req[c].tok
        new_access_token == create_access_token(req[c].user)
        made == create_refresh_token(tokens[refresh_token].user_id, NULL)
    IN  /\ req[c].pc = "refresh_tokens"
        /\ Len(tokens) < MaxTokens
        /\ req' = [req EXCEPT ![c] = Idle]
        /\ tokens' = made.tokens
        /\ rotations' = rotations \cup {[old |-> refresh_token, new |-> made.value]}
        /\ resp' = Response("refresh_tokens", refresh_token, "ok",
                            [access_token |-> new_access_token,
                             refresh_token |-> made.value])
        /\ UNCHANGED <<reused, loggedOut>>
        /\ UNCHANGED dbVars

\* PUT /auth/token, the handler body
refresh_tokens(c) ==
    LET refresh_token == req[c].tok
        new_access_token == create_access_token(req[c].user)
        made == create_refresh_token(tokens[refresh_token].user_id, refresh_token)
    IN  /\ req[c].pc = "refresh_tokens"
        /\ made.error = "ok" => Len(tokens) < MaxTokens
        /\ req' = [req EXCEPT ![c] = Idle]
        /\ IF made.error # "ok"
           THEN /\ resp' = Response("refresh_tokens", refresh_token, made.error, NULL)
                /\ reused' = IF Rotated(refresh_token)
                             THEN reused \cup {refresh_token} ELSE reused
                /\ UNCHANGED <<tokens, rotations>>
           ELSE /\ tokens' = made.tokens
                /\ rotations' = rotations \cup {[old |-> refresh_token, new |-> made.value]}
                /\ resp' = Response("refresh_tokens", refresh_token, "ok",
                                    [access_token |-> new_access_token,
                                     refresh_token |-> made.value])
                /\ UNCHANGED reused
        /\ UNCHANGED loggedOut
        /\ UNCHANGED dbVars

\* DELETE /auth/token, resolution of the dependency valid_refresh_token
logout_user_deps(c, value) ==
    /\ req[c].pc = "idle"
    /\ IF valid_refresh_token(value)
       THEN /\ req' = [req EXCEPT ![c] = [pc |-> "logout_user", tok |-> value,
                                          user |-> NULL]]
            /\ UNCHANGED resp
       ELSE /\ resp' = Response("logout_user", value, "InvalidRefreshToken", NULL)
            /\ UNCHANGED req
    /\ UNCHANGED <<tokens, rotations, loggedOut, reused>>
    /\ UNCHANGED dbVars

\* DELETE /auth/token, the handler body clearing the cookie only
logout_user_keeps_token(c) ==
    /\ req[c].pc = "logout_user"
    /\ loggedOut' = loggedOut \cup {req[c].tok}
    /\ req' = [req EXCEPT ![c] = Idle]
    /\ resp' = Response("logout_user", req[c].tok, "ok", "Logged out succesfully!")
    /\ UNCHANGED <<tokens, rotations, reused>>
    /\ UNCHANGED dbVars

\* DELETE /auth/token, the handler body
logout_user(c) ==
    /\ req[c].pc = "logout_user"
    /\ tokens' = expire_refresh_token(req[c].tok)
    /\ loggedOut' = loggedOut \cup {req[c].tok}
    /\ req' = [req EXCEPT ![c] = Idle]
    /\ resp' = Response("logout_user", req[c].tok, "ok", "Logged out succesfully!")
    /\ UNCHANGED <<rotations, reused>>
    /\ UNCHANGED dbVars

\* time passes the expires_at of a token; expiry is checked lazily at use
TokenExpires(t) ==
    /\ t \in Issued
    /\ ~tokens[t].expired
    /\ tokens' = [tokens EXCEPT ![t].expired = TRUE]
    /\ UNCHANGED <<req, resp, rotations, loggedOut, reused>>
    /\ UNCHANGED dbVars

-----------------------------------------------------------------------------
(* user model and access predicates *)

\* User.is_admin: the role is the reserved admin role
is_admin(db, user) == db.users[user].role_id = ADMIN_ROLE_ID

\* User.get_tenants_ids: the tenants the user is a member of
get_tenants_ids(db, user) == {t \in DOMAIN db.tenants : <<t, user>> \in db.members}

\* the role has at least the owner tier (admin > owner > user)
has_admin_or_owner_role(db, user) == roles[db.users[user].role_id] \in {"admin", "owner"}

\* the gate that lets every user with some membership into every tenant
has_access_to_tenant_any_member(db, tenant_id, user) ==
    is_admin(db, user) \/ \E m \in db.members : m[2] = user

has_access_to_tenant(db, tenant_id, user) ==
    is_admin(db, user) \/ <<tenant_id, user>> \in db.members

\* the tenant a device belongs to through its folder, NULL when the folder is gone
DeviceTenant(db, device_id) ==
    IF db.devices[device_id].folder_id \in DOMAIN db.folders
    THEN db.folders[db.devices[device_id].folder_id].tenant_id
    ELSE NULL

\* "ok", or the error the gate raises
has_access_to_device(db, device_id, user) ==
    IF device_id \notin DOMAIN db.devices THEN "DeviceNotFound"
    ELSE IF has_access_to_tenant(db, DeviceTenant(db, device_id), user) THEN "ok"
    ELSE "PermissionDenied"

\* the edit gate without the role tier
can_edit_device_any_role(db, device_id, user) ==
    IF device_id \notin DOMAIN db.devices THEN "DeviceNotFound"
    ELSE IF is_admin(db, user) THEN "ok"
    ELSE has_access_to_device(db, device_id, user)

can_edit_device(db, device_id, user) ==
    IF device_id \notin DOMAIN db.devices THEN "DeviceNotFound"
    ELSE IF is_admin(db, user) THEN "ok"
    ELSE IF has_access_to_device(db, device_id, user) = "ok"
            /\ has_admin_or_owner_role(db, user)
         THEN "ok"
    ELSE "PermissionDenied"

-----------------------------------------------------------------------------
(* user service and tenant service: listings *)

user_get_tenants(db, user_id) ==
    IF is_admin(db, user_id) THEN DOMAIN db.tenants
    ELSE {t \in DOMAIN db.tenants : t \in get_tenants_ids(db, user_id)}

user_get_folders(db, user_id) ==
    IF ~is_admin(db, user_id)
    THEN {f \in DOMAIN db.folders : db.folders[f].tenant_id \in get_tenants_ids(db, user_id)}
    ELSE DOMAIN db.folders

\* the listing without the folder filter for non-admins
user_get_devices_unfiltered(db, user_id) == DOMAIN db.devices

user_get_devices(db, user_id) ==
    LET tenant_ids == {m[1] : m \in {x \in db.members : x[2] = user_id}}
        tenant_folder_ids ==
            {f \in DOMAIN db.folders : db.folders[f].tenant_id \in tenant_ids}
    IN  IF db.users[user_id].role_id # ADMIN_ROLE_ID
        THEN {d \in DOMAIN db.devices : db.devices[d].folder_id \in tenant_folder_ids}
        ELSE DOMAIN db.devices

tenant_get_tenants(db, user) ==
    IF db.users[user].role_id # ADMIN_ROLE_ID
    THEN {t \in DOMAIN db.tenants : \E m \in db.members : m[1] = t /\ m[2] = user}
    ELSE DOMAIN db.tenants

-----------------------------------------------------------------------------
(* tag service and tenant service *)

\* str.lower().replace(" ", "-") on the names of the model
Slug(name) == CASE name = "Lab" -> "lab" [] OTHER -> name

\* the entity of the row, NULL when the id is unset or finds no row
get_entity_id(table, obj_id) ==
    IF obj_id \in DOMAIN table THEN table[obj_id].entity_id ELSE NULL

\* name LIKE %word% on the names of the model, which are sequences of words
NameLike(tag_name, word) == \E i \in DOMAIN tag_name : tag_name[i] = word

\* the tags joined with the associations; the entity filter is applied only
\* when some id resolved, the name filter only for a non-empty name
get_tags(db, name, user_id, tenant_id, folder_id, device_id) ==
    LET entity_ids == {get_entity_id(db.users, user_id),
                       get_entity_id(db.tenants, tenant_id),
                       get_entity_id(db.folders, folder_id),
                       get_entity_id(db.devices, device_id)}
        any == \E e \in entity_ids : e # NULL
    IN  Result(db, "ok",
               {a[2] : a \in {b \in db.entityTags :
                                /\ any => b[1] \in entity_ids \ {NULL}
                                /\ name # NULL_STR => NameLike(db.tags[b[2]].name, name)}})

\* inserts the tag row and commits: the store and the new tag id
create_tag(db, name, tenant_id) ==
    LET id == NextId(db.tags)
    IN  Result([db EXCEPT !.tags = Insert(@, id, [name |-> name, tenant_id |-> tenant_id])],
               "ok", id)

check_tenant_name_taken(db, name) ==
    IF \E t \in DOMAIN db.tenants : db.tenants[t].name = name
    THEN "TenantNameTaken" ELSE "ok"

\* the creation that gives the tenant its root folder at once
create_tenant_with_root(db, name) ==
    LET taken == check_tenant_name_taken(db, name)
        entity == create_entity_auto(db)
        id == NextId(db.tenants)
        made == [entity.db EXCEPT !.tenants =
                    Insert(@, id, [name |-> name, entity_id |-> entity.out])]
        root == [made EXCEPT !.folders =
                    Insert(@, NextId(made.folders),
                           [name |-> "/", tenant_id |-> id, parent_id |-> NULL,
                            entity_id |-> entity.out])]
    IN  IF taken # "ok" THEN Result(db, taken, NULL)
        ELSE Result(root, "ok", id)

create_tenant(db, name) ==
    LET taken == check_tenant_name_taken(db, name)
        entity == create_entity_auto(db)
        id == NextId(db.tenants)
    IN  IF taken # "ok" THEN Result(db, taken, NULL)
        ELSE Result([entity.db EXCEPT !.tenants =
                        Insert(@, id, [name |-> name, entity_id |-> entity.out])],
                    "ok", id)

\* the tenant row as the response schema shows it: id, name and its folders
get_tenant(db, tenant_id) ==
    LET e == check_tenant_exists(db, tenant_id)
    IN  IF e # "ok" THEN Result(db, e, NULL)
        ELSE Result(db, "ok",
                    [id |-> tenant_id, name |-> db.tenants[tenant_id].name,
                     folders |-> {f \in DOMAIN db.folders :
                                     db.folders[f].tenant_id = tenant_id}])

\* the tags of the tenant, PermissionDenied without access to it
get_tenant_tags(db, user, tenant_id) ==
    LET e == check_tenant_exists(db, tenant_id)
    IN  IF e # "ok" THEN Result(db, e, NULL)
        ELSE IF has_access_to_tenant(db, tenant_id, user)
        THEN Result(db, "ok", {g \in DOMAIN db.tags : db.tags[g].tenant_id = tenant_id})
        ELSE Result(db, "PermissionDenied", NULL)

-----------------------------------------------------------------------------
(* folder service *)

check_folder_exist(db, folder_id) ==
    IF folder_id \in DOMAIN db.folders THEN "ok" ELSE "FolderNotFound"

\* the name check that looks at the folders of every tenant
check_folder_name_taken_any_tenant(db, folder_name, tenant_id, folder_id) ==
    LET folder_name_taken ==
            {f \in DOMAIN db.folders :
                /\ folder_name # NULL_STR /\ db.folders[f].name = folder_name
                /\ (folder_id # NULL => f # folder_id)}
    IN  IF folder_name_taken # {} THEN "FolderNameTaken" ELSE "ok"

\* folder_id NULL: no folder is excluded; a NULL name or tenant matches no row
check_folder_name_taken(db, folder_name, tenant_id, folder_id) ==
    LET folder_name_taken ==
            {f \in DOMAIN db.folders :
                /\ folder_name # NULL_STR /\ db.folders[f].name = folder_name
                /\ tenant_id # NULL /\ db.folders[f].tenant_id = tenant_id
                /\ (folder_id # NULL => f # folder_id)}
    IN  IF folder_name_taken # {} THEN "FolderNameTaken" ELSE "ok"

\* the root made without attaching its tag
create_root_folder_untagged(db, tenant_id) ==
    LET entity == create_entity_auto(db)
        id == NextId(entity.db.folders)
        db1 == [entity.db EXCEPT !.folders =
                    Insert(@, id, [name |-> "/", tenant_id |-> tenant_id,
                                   parent_id |-> NULL, entity_id |-> entity.out])]
        tag == create_tag(db1, <<"folder", "root", "tenant", ToString(tenant_id), "tag">>, tenant_id)
    IN  [db |-> tag.db, error |-> "ok", out |-> id, pending |-> {}]

\* the store with the root committed and its tag row committed; out is the
\* root folder id; pending holds the tag attachment the session has not
\* flushed yet
create_root_folder(db, tenant_id) ==
    LET entity == create_entity_auto(db)
        id == NextId(entity.db.folders)
        db1 == [entity.db EXCEPT !.folders =
                    Insert(@, id, [name |-> "/", tenant_id |-> tenant_id,
                                   parent_id |-> NULL, entity_id |-> entity.out])]
        tag == create_tag(db1, <<"folder", "root", "tenant", ToString(tenant_id), "tag">>, tenant_id)
    IN  [db |-> tag.db, error |-> "ok", out |-> id, pending |-> {<<entity.out, tag.out>>}]

\* the lookup that never finds the root
get_root_folder_no_lookup(db, tenant_id) == create_root_folder(db, tenant_id)

get_root_folder(db, tenant_id) ==
    LET root_folder == {f \in DOMAIN db.folders :
                            /\ db.folders[f].name = "/"
                            /\ db.folders[f].tenant_id = tenant_id
                            /\ db.folders[f].parent_id = NULL}
    IN  IF root_folder # {}
        THEN [db |-> db, error |-> "ok", out |-> Min(root_folder), pending |-> {}]
        ELSE create_root_folder(db, tenant_id)

\* folder is [name, tenant_id, parent_id]; pending holds the attachment of the
\* new folder's tag, which the service leaves unflushed
create_folder(db, folder) ==
    LET e1 == check_tenant_exists(db, folder.tenant_id)
        e2 == check_folder_name_taken(db, folder.name, folder.tenant_id, NULL)
        entity == create_entity_auto(db)
        root_folder == get_root_folder(entity.db, folder.tenant_id)
        e3 == IF folder.parent_id # NULL
              THEN check_folder_exist(root_folder.db, folder.parent_id) ELSE "ok"
        parent_id == IF folder.parent_id # NULL THEN folder.parent_id ELSE root_folder.out
        id == NextId(root_folder.db.folders)
        db1 == [root_folder.db EXCEPT
                    !.folders = Insert(@, id, [name |-> folder.name,
                                               tenant_id |-> folder.tenant_id,
                                               parent_id |-> parent_id,
                                               entity_id |-> entity.out]),
                    !.entityTags = @ \cup root_folder.pending]
        formatted_name == <<Slug(db1.tenants[folder.tenant_id].name), Slug(folder.name)>>
        folder_tag == create_tag(db1, <<"folder">> \o formatted_name \o <<"tag">>,
                                 folder.tenant_id)
    IN  IF e1 # "ok" THEN [db |-> db, error |-> e1, out |-> NULL, pending |-> {}]
        ELSE IF e2 # "ok" THEN [db |-> db, error |-> e2, out |-> NULL, pending |-> {}]
        ELSE IF e3 # "ok"
        THEN [db |-> root_folder.db, error |-> e3, out |-> NULL, pending |-> {}]
        ELSE [db |-> folder_tag.db, error |-> "ok", out |-> id,
              pending |-> {<<entity.out, folder_tag.out>>}]

get_folder(db, folder_id) ==
    IF folder_id \in DOMAIN db.folders THEN "ok" ELSE "FolderNotFound"

\* the listing without the root filter for non-admins
folder_get_folders_all_levels(db, user_id) ==
    IF check_user_exists(db, user_id) # "ok" THEN Result(db, "UserNotFound", NULL)
    ELSE IF is_admin(db, user_id)
    THEN Result(db, "ok", {f \in DOMAIN db.folders : db.folders[f].parent_id = NULL})
    ELSE IF get_tenants_ids(db, user_id) # {}
    THEN Result(db, "ok", {f \in DOMAIN db.folders :
                              db.folders[f].tenant_id \in get_tenants_ids(db, user_id)})
    ELSE Result(db, "UserTenantNotAssigned", NULL)

folder_get_folders(db, user_id) ==
    IF check_user_exists(db, user_id) # "ok" THEN Result(db, "UserNotFound", NULL)
    ELSE IF is_admin(db, user_id)
    THEN Result(db, "ok", {f \in DOMAIN db.folders : db.folders[f].parent_id = NULL})
    ELSE IF get_tenants_ids(db, user_id) # {}
    THEN Result(db, "ok", {f \in DOMAIN db.folders :
                              /\ db.folders[f].tenant_id \in get_tenants_ids(db, user_id)
                              /\ db.folders[f].parent_id = NULL})
    ELSE Result(db, "UserTenantNotAssigned", NULL)

\* the ids of the given tags that belong to the tenant
filter_tag_ids(db, tag_ids, tenant_id) ==
    {g \in tag_ids : g \in DOMAIN db.tags /\ db.tags[g].tenant_id = tenant_id}

\* replaces the tags attached to the entity by the given ones; refused when
\* a tag is of a tenant the entity's owner has no relationship with
update_entity_tags(db, entity, tenant_ids, tag_ids) ==
    IF \E g \in tag_ids : db.tags[g].tenant_id \notin tenant_ids
    THEN Result(db, "EntityTenantRelationshipMissing", NULL)
    ELSE Result([db EXCEPT !.entityTags =
                    {a \in @ : a[1] # entity} \cup {<<entity, g>> : g \in tag_ids}],
                "ok", entity)

\* patch is [name, tenant_id, parent_id, tags]; a field that is not set is
\* NULL (NULL_STR for the name, {} for the tags)
update_folder(db, folder_id, patch) ==
    LET e1 == get_folder(db, folder_id)
        e2 == IF patch.tenant_id # NULL THEN check_tenant_exists(db, patch.tenant_id)
              ELSE "ok"
        e3 == check_folder_name_taken(db, patch.name, patch.tenant_id, folder_id)
        old == db.folders[folder_id]
        tagged == IF patch.tags # {}
                  THEN update_entity_tags(db, old.entity_id, {old.tenant_id},
                                          filter_tag_ids(db, patch.tags, old.tenant_id))
                  ELSE Result(db, "ok", old.entity_id)
        new == [old EXCEPT
                  !.name = IF patch.name # NULL_STR THEN patch.name ELSE @,
                  !.tenant_id = IF patch.tenant_id # NULL THEN patch.tenant_id ELSE @,
                  !.parent_id = IF patch.parent_id # NULL THEN patch.parent_id ELSE @]
    IN  IF e1 # "ok" THEN Result(db, e1, NULL)
        ELSE IF e2 # "ok" THEN Result(db, e2, NULL)
        ELSE IF e3 # "ok" THEN Result(db, e3, NULL)
        ELSE IF tagged.error # "ok" THEN Result(db, tagged.error, NULL)
        ELSE Result([tagged.db EXCEPT !.folders[folder_id] = new], "ok", folder_id)

\* deleting the row: the session sets the parent_id of the subfolders to
\* NULL; a device in the folder cannot have its folder_id set to NULL
delete_folder(db, folder_id) ==
    LET e1 == check_folder_exist(db, folder_id)
    IN  IF e1 # "ok" THEN Result(db, e1, NULL)
        ELSE IF \E d \in DOMAIN db.devices : db.devices[d].folder_id = folder_id
        THEN Result(db, "IntegrityError", NULL)
        ELSE Result([db EXCEPT !.folders =
                        [f \in DOMAIN db.folders \ {folder_id} |->
                            IF db.folders[f].parent_id = folder_id
                            THEN [db.folders[f] EXCEPT !.parent_id = NULL]
                            ELSE db.folders[f]]],
                    "ok", folder_id)

\* the listing whose non-admin branch gives every folder below the parent
get_subfolders_all_below(db, parent_folder_id, user_id) ==
    IF check_user_exists(db, user_id) # "ok" THEN Result(db, "UserNotFound", NULL)
    ELSE IF is_admin(db, user_id)
    THEN Result(db, "ok", {f \in DOMAIN db.folders :
                              db.folders[f].parent_id = parent_folder_id})
    ELSE IF get_folder(db, parent_folder_id) # "ok"
    THEN Result(db, "FolderNotFound", NULL)
    ELSE Result(db, "ok",
                {f \in DOMAIN db.folders :
                    \/ db.folders[f].parent_id = parent_folder_id
                    \/ \E g \in DOMAIN db.folders :
                          /\ db.folders[g].parent_id = parent_folder_id
                          /\ db.folders[f].parent_id = g})

\* admin: the folders with that parent_id; others: the folders of the
\* parent's subfolders relationship
get_subfolders(db, parent_folder_id, user_id) ==
    IF check_user_exists(db, user_id) # "ok" THEN Result(db, "UserNotFound", NULL)
    ELSE IF is_admin(db, user_id)
    THEN Result(db, "ok", {f \in DOMAIN db.folders :
                              db.folders[f].parent_id = parent_folder_id})
    ELSE IF get_folder(db, parent_folder_id) # "ok"
    THEN Result(db, "FolderNotFound", NULL)
    ELSE LET subfolders_id == {s \in DOMAIN db.folders :
                                  db.folders[s].parent_id = parent_folder_id}
         IN  Result(db, "ok", {f \in DOMAIN db.folders : f \in subfolders_id})

create_subfolder(db, parent_folder_id, subfolder) ==
    IF get_folder(db, parent_folder_id) # "ok"
    THEN [db |-> db, error |-> "FolderNotFound", out |-> NULL, pending |-> {}]
    ELSE create_folder(db, [subfolder EXCEPT !.parent_id = parent_folder_id])

update_subfolder(db, parent_folder_id, subfolder_id, patch) ==
    IF get_folder(db, parent_folder_id) # "ok" THEN Result(db, "FolderNotFound", NULL)
    ELSE IF patch.parent_id = NULL \/ patch.parent_id # parent_folder_id
    THEN Result(db, "SubfolderParentMismatch", NULL)
    ELSE update_folder(db, subfolder_id, patch)

\* the subfolder is a folder the caller has read: it exists
delete_subfolder(db, parent_folder_id, subfolder_id) ==
    IF get_folder(db, parent_folder_id) # "ok" THEN Result(db, "FolderNotFound", NULL)
    ELSE IF parent_folder_id = db.folders[subfolder_id].parent_id
    THEN delete_folder(db, subfolder_id)
    ELSE Result(db, "SubfolderParentMismatch", NULL)

-----------------------------------------------------------------------------
(* device service *)

create_device(db, name, folder_id) ==
    LET entity == create_entity_auto(db)
        id == NextId(db.devices)
    IN  IF \E d \in DOMAIN db.devices : db.devices[d].name = name
        THEN Result(db, "DeviceNameTaken", NULL)
        ELSE IF folder_id \notin DOMAIN db.folders THEN Result(db, "FolderNotFound", NULL)
        ELSE Result([entity.db EXCEPT !.devices =
                        Insert(@, id, [name |-> name, folder_id |-> folder_id,
                                       entity_id |-> entity.out])],
                    "ok", id)

get_device(db, device_id) ==
    IF device_id \in DOMAIN db.devices THEN Result(db, "ok", device_id)
    ELSE Result(db, "DeviceNotFound", NULL)

\* the devices in the folders of the tenant
device_get_devices(db, tenant_id) ==
    {d \in DOMAIN db.devices : DeviceTenant(db, d) = tenant_id}

\* moves the device to another folder
service_update_device(db, device_id, folder_id) ==
    IF device_id \notin DOMAIN db.devices THEN Result(db, "DeviceNotFound", NULL)
    ELSE IF folder_id \notin DOMAIN db.folders THEN Result(db, "FolderNotFound", NULL)
    ELSE Result([db EXCEPT !.devices[device_id].folder_id = folder_id], "ok", device_id)

service_delete_device(db, device_id) ==
    IF device_id \notin DOMAIN db.devices THEN Result(db, "DeviceNotFound", NULL)
    ELSE Result([db EXCEPT !.devices = Delete(@, device_id)], "ok", device_id)

-----------------------------------------------------------------------------
(* Requests on users, tenants, folders and devices.  Each one runs in its   *)
(* own session: the gate runs first, then the handler, and what the        *)
(* session committed is the store afterwards.                               *)

MaxEntities == 11

Fits(db) == Cardinality(db.entities) <= MaxEntities

Served(op, arg, r) ==
    /\ Fits(r.db)
    /\ Commit(r.db)
    /\ resp' = Response(op, arg, r.error, r.out)
    /\ UNCHANGED authVars

req_assign_role(user_id, role_id) ==
    Served("assign_role", <<user_id, role_id>>, assign_role(Db, user_id, role_id))

req_assign_tenant(user_id, tenant_id) ==
    Served("assign_tenant", <<user_id, tenant_id>>, assign_tenant(Db, user_id, tenant_id))

\* POST /tenants/: the response is the new tenant as get_tenant shows it
req_create_tenant(name) ==
    LET r == create_tenant(Db, name)
    IN  Served("create_tenant", name,
               IF r.error = "ok" THEN Result(r.db, "ok", get_tenant(r.db, r.out).out)
               ELSE r)

\* GET /tenants/{tenant_id}
req_read_tenant(tenant_id) ==
    Served("read_tenant", tenant_id, get_tenant(Db, tenant_id))

req_update_user(user_id, patch) ==
    /\ user_id \in DOMAIN users
    /\ Served("update_user", <<user_id, patch>>, update_user(Db, user_id, patch))

req_create_tag(name, tenant_id) ==
    Served("create_tag", <<name, tenant_id>>, create_tag(Db, name, tenant_id))

\* ids is <<user_id, tenant_id, folder_id, device_id>>
req_get_tags(name, ids) ==
    Served("get_tags", <<name, ids>>, get_tags(Db, name, ids[1], ids[2], ids[3], ids[4]))

req_create_folder(folder) ==
    LET r == create_folder(Db, folder)
    IN  Served("create_folder", folder, Result(r.db, r.error, r.out))

req_update_folder(folder_id, patch) ==
    Served("update_folder", <<folder_id, patch>>, update_folder(Db, folder_id, patch))

req_delete_folder(folder_id) ==
    Served("delete_folder", folder_id, delete_folder(Db, folder_id))

\* POST /devices/, gated by has_admin_or_owner_role
register_device(user, name, folder_id) ==
    Served("register_device", <<user, name, folder_id>>,
           IF ~has_admin_or_owner_role(Db, user) THEN Result(Db, "PermissionDenied", NULL)
           ELSE create_device(Db, name, folder_id))

\* GET /devices/{device_id}, gated by has_access_to_device
read_device(user, device_id) ==
    LET gate == has_access_to_device(Db, device_id, user)
    IN  Served("read_device", <<user, device_id>>,
               IF gate # "ok" THEN Result(Db, gate, NULL) ELSE get_device(Db, device_id))

\* GET /tenants/{tenant_id}/devices, gated by has_access_to_tenant
tenant_read_devices(user, tenant_id) ==
    Served("tenant_read_devices", <<user, tenant_id>>,
           IF ~has_access_to_tenant(Db, tenant_id, user)
           THEN Result(Db, "PermissionDenied", NULL)
           ELSE Result(Db, "ok", device_get_devices(Db, tenant_id)))

\* PATCH /devices/{device_id}, gated by can_edit_device
update_device(user, device_id, folder_id) ==
    LET gate == can_edit_device(Db, device_id, user)
        db_device == get_device(Db, device_id)
    IN  Served("update_device", <<user, device_id>>,
               IF gate # "ok" THEN Result(Db, gate, NULL)
               ELSE IF db_device.error # "ok" THEN db_device
               ELSE service_update_device(Db, db_device.out, folder_id))

\* DELETE /devices/{device_id}, gated by can_edit_device
delete_device(user, device_id) ==
    LET gate == can_edit_device(Db, device_id, user)
        db_device == get_device(Db, device_id)
    IN  Served("delete_device", <<user, device_id>>,
               IF gate # "ok" THEN Result(Db, gate, NULL)
               ELSE IF db_device.error # "ok" THEN db_device
               ELSE service_delete_device(Db, db_device.out))

req_get_tenant_tags(user, tenant_id) ==
    Served("get_tenant_tags", <<user, tenant_id>>, get_tenant_tags(Db, user, tenant_id))

req_user_get_tenants(user_id) ==
    Served("user.get_tenants", user_id, Result(Db, "ok", user_get_tenants(Db, user_id)))

req_user_get_folders(user_id) ==
    Served("user.get_folders", user_id, Result(Db, "ok", user_get_folders(Db, user_id)))

req_user_get_devices(user_id) ==
    Served("user.get_devices", user_id, Result(Db, "ok", user_get_devices(Db, user_id)))

req_tenant_get_tenants(user) ==
    Served("tenant.get_tenants", user, Result(Db, "ok", tenant_get_tenants(Db, user)))

req_folder_get_folders(user_id) ==
    Served("folder.get_folders", user_id, folder_get_folders(Db, user_id))

req_get_root_folder(tenant_id) ==
    LET r == get_root_folder(Db, tenant_id)
    IN  /\ check_tenant_exists(Db, tenant_id) = "ok"
        /\ Served("get_root_folder", tenant_id, Result(r.db, r.error, r.out))

req_create_subfolder(parent_folder_id, subfolder) ==
    LET r == create_subfolder(Db, parent_folder_id, subfolder)
    IN  Served("create_subfolder", <<parent_folder_id, subfolder>>,
               Result(r.db, r.error, r.out))

req_update_subfolder(parent_folder_id, subfolder_id, patch) ==
    /\ subfolder_id \in DOMAIN folders
    /\ Served("update_subfolder", <<parent_folder_id, subfolder_id, patch>>,
              update_subfolder(Db, parent_folder_id, subfolder_id, patch))

req_delete_subfolder(parent_folder_id, subfolder_id) ==
    /\ subfolder_id \in DOMAIN folders
    /\ Served("delete_subfolder", <<parent_folder_id, subfolder_id>>,
              delete_subfolder(Db, parent_folder_id, subfolder_id))

req_get_subfolders(parent_folder_id, user_id) ==
    Served("get_subfolders", <<parent_folder_id, user_id>>,
           get_subfolders(Db, parent_folder_id, user_id))

-----------------------------------------------------------------------------
-----------------------------------------------------------------------------
(* create_folder statement by statement: every commit of the service is a   *)
(* step of its own, and the requests of two clients interleave between the  *)
(* steps. req[c] holds the position of client c in create_folder, the       *)
(* folder it creates, what its session has read, and the tag attachments    *)
(* the session has not flushed.                                             *)

\* the root folders of the tenant among the folder rows fs
RootsOf(fs, tenant_id) ==
    {f \in DOMAIN fs : /\ fs[f].name = "/" /\ fs[f].tenant_id = tenant_id
                       /\ fs[f].parent_id = NULL}

InCreate(c, pc, folder, entity, root, id, attach) ==
    [req EXCEPT ![c] = [pc |-> pc, tok |-> NULL, user |-> NULL, folder |-> folder,
                        entity |-> entity, root |-> root, id |-> id, attach |-> attach]]

CreateKeeps == UNCHANGED <<tokens, rotations, loggedOut, reused>>

\* lines 78-83: the checks, the entity of the new folder, the lookup of the root
create_folder_begin(c, folder) ==
    LET e1 == check_tenant_exists(Db, folder.tenant_id)
        e2 == check_folder_name_taken(Db, folder.name, folder.tenant_id, NULL)
        entity == create_entity_auto(Db)
        root_folder == RootsOf(folders, folder.tenant_id)
    IN  /\ req[c].pc = "idle"
        /\ CreateKeeps
        /\ IF e1 # "ok" \/ e2 # "ok"
           THEN /\ resp' = Response("create_folder", folder, IF e1 # "ok" THEN e1 ELSE e2, NULL)
                /\ UNCHANGED <<dbVars, req>>
           ELSE /\ Commit(entity.db)
                /\ resp' = Response("create_folder_begin", folder, "ok", NULL)
                /\ req' = IF root_folder # {}
                          THEN InCreate(c, "parent_check", folder, entity.out,
                                        Min(root_folder), NULL, {})
                          ELSE InCreate(c, "create_root_folder", folder, entity.out,
                                        NULL, NULL, {})

\* lines 40-45: the root row and its entity, committed
root_insert(c) ==
    LET ctx == req[c]
        entity == create_entity_auto(Db)
        id == NextId(folders)
        db1 == [entity.db EXCEPT !.folders =
                    Insert(@, id, [name |-> "/", tenant_id |-> ctx.folder.tenant_id,
                                   parent_id |-> NULL, entity_id |-> entity.out])]
    IN  /\ ctx.pc = "create_root_folder"
        /\ CreateKeeps
        /\ Commit(db1)
        /\ resp' = Response("root_insert", ctx.folder, "ok", id)
        /\ req' = InCreate(c, "root_tag", ctx.folder, ctx.entity, id, NULL, {})

\* lines 47-57: the tag of the root, committed, and its attachment, which
\* stays in the session
root_tag(c) ==
    LET ctx == req[c]
        tag == create_tag(Db, <<"folder", "root", "tenant",
                                ToString(ctx.folder.tenant_id), "tag">>,
                          ctx.folder.tenant_id)
    IN  /\ ctx.pc = "root_tag"
        /\ ctx.root \in DOMAIN folders
        /\ CreateKeeps
        /\ Commit(tag.db)
        /\ resp' = Response("root_tag", ctx.folder, "ok", tag.out)
        /\ req' = InCreate(c, "parent_check", ctx.folder, ctx.entity, ctx.root, NULL,
                           {<<folders[ctx.root].entity_id, tag.out>>})

\* lines 85-93: the parent check, the folder row, and the commit, which also
\* writes the attachments the session holds
folder_insert(c) ==
    LET ctx == req[c]
        e3 == IF ctx.folder.parent_id # NULL
              THEN check_folder_exist(Db, ctx.folder.parent_id) ELSE "ok"
        parent_id == IF ctx.folder.parent_id # NULL THEN ctx.folder.parent_id ELSE ctx.root
        id == NextId(folders)
        db1 == [Db EXCEPT !.folders = Insert(@, id, [name |-> ctx.folder.name,
                                                     tenant_id |-> ctx.folder.tenant_id,
                                                     parent_id |-> parent_id,
                                                     entity_id |-> ctx.entity]),
                          !.entityTags = @ \cup ctx.attach]
    IN  /\ ctx.pc = "parent_check"
        /\ CreateKeeps
        /\ IF e3 # "ok"
           THEN /\ resp' = Response("create_folder", ctx.folder, e3, NULL)
                /\ req' = [req EXCEPT ![c] = Idle]
                /\ UNCHANGED dbVars
           ELSE /\ Commit(db1)
                /\ resp' = Response("folder_insert", ctx.folder, "ok", id)
                /\ req' = InCreate(c, "folder_tag", ctx.folder, ctx.entity, ctx.root, id, {})

\* lines 95-102: the tag of the folder, committed; its attachment is made
\* after the last commit and goes with the session
folder_tag(c) ==
    LET ctx == req[c]
        formatted_name == <<Slug(tenants[ctx.folder.tenant_id].name), Slug(ctx.folder.name)>>
        folder_tag_ == create_tag(Db, <<"folder">> \o formatted_name \o <<"tag">>,
                                  ctx.folder.tenant_id)
    IN  /\ ctx.pc = "folder_tag"
        /\ CreateKeeps
        /\ Commit(folder_tag_.db)
        /\ resp' = Response("create_folder", ctx.folder, "ok", ctx.id)
        /\ req' = [req EXCEPT ![c] = Idle]

\* the tag step raises (the database refuses the insert or the commit): the
\* request ends with the error and nothing undoes the commits before it
folder_tag_fails(c) ==
    LET ctx == req[c]
    IN  /\ ctx.pc = "folder_tag"
        /\ CreateKeeps
        /\ UNCHANGED dbVars
        /\ resp' = Response("create_folder", ctx.folder, "DatabaseError", NULL)
        /\ req' = [req EXCEPT ![c] = Idle]

-----------------------------------------------------------------------------
(* Specifications *)

InitDb ==
    /\ users = <<>>
    /\ tenants = <<>>
    /\ members = {}
    /\ folders = <<>>
    /\ devices = <<>>
    /\ entities = {}
    /\ tags = <<>>
    /\ entityTags = {}

InitAuth ==
    /\ tokens = <<>>
    /\ req = [c \in Clients |-> Idle]
    /\ resp = Response("start", NULL, "ok", NULL)
    /\ rotations = {}
    /\ loggedOut = {}
    /\ reused = {}

Init == InitDb /\ InitAuth

\* inputs of the authentication requests
AuthRegisterNames == {"a@sia.com"}
AuthRegisterPasswords == {PwGood, PwShort}
AuthLoginPasswords == {PwGood, PwOther}

AuthNext ==
    \/ \E u \in AuthRegisterNames, p \in AuthRegisterPasswords : register_user(u, p)
    \/ \E c \in Clients, u \in Usernames, p \in AuthLoginPasswords : login(c, u, p)
    \/ \E c \in Clients, v \in TokenValues : refresh_tokens_deps(c, v)
    \/ \E c \in Clients : refresh_tokens(c)
    \/ \E c \in Clients, v \in TokenValues : logout_user_deps(c, v)
    \/ \E c \in Clients : logout_user(c)
    \/ \E t \in TokenValues : TokenExpires(t)

\* the store the access requests start from: two users (the first one made
\* admin), two tenants, a folder under the root of each tenant and a device
\* in each of these folders, all made by the services
SeedDb ==
    LET d1 == create_user(EmptyDb, "a@sia.com", PwGood).db
        d2 == create_user(d1, "b@sia.com", PwGood).db
        d3 == assign_role(d2, 1, ADMIN_ROLE_ID).db
        d4 == create_tenant(d3, "tenant1").db
        d5 == create_tenant(d4, "tenant2").db
        d6 == create_folder(d5, [name |-> "lab", tenant_id |-> 1, parent_id |-> NULL]).db
        d7 == create_folder(d6, [name |-> "lab", tenant_id |-> 2, parent_id |-> NULL]).db
        d8 == create_device(d7, "dev1", 2).db
    IN  create_device(d8, "dev2", 4).db

InitAccess ==
    /\ users = SeedDb.users
    /\ tenants = SeedDb.tenants
    /\ members = SeedDb.members
    /\ folders = SeedDb.folders
    /\ devices = SeedDb.devices
    /\ entities = SeedDb.entities
    /\ tags = SeedDb.tags
    /\ entityTags = SeedDb.entityTags
    /\ InitAuth

\* inputs of the access requests
UserIds == {1, 2}
MemberIds == {2}
GrantedRoles == {2, 3}
TenantIds == {1, 2, 3}
NewFolders == {[name |-> "tmp", tenant_id |-> 1, parent_id |-> 2],
               [name |-> "lab", tenant_id |-> 2, parent_id |-> NULL],
               [name |-> "tmp", tenant_id |-> 3, parent_id |-> NULL]}
FolderIds == {2}
DeletedFolders == {2}
FolderPatches == {[name |-> NULL_STR, tenant_id |-> 2, parent_id |-> NULL, tags |-> {}],
                  [name |-> NULL_STR, tenant_id |-> NULL, parent_id |-> 3, tags |-> {}]}
DeviceIds == {1, 2, 3}
MovedDevices == {1}
DeviceFolders == {2, 4}
NewDeviceFolders == {2}

AccessNext ==
    \/ \E u \in MemberIds, r \in GrantedRoles : req_assign_role(u, r)
    \/ \E u \in MemberIds, t \in TenantIds : req_assign_tenant(u, t)
    \/ \E f \in NewFolders : req_create_folder(f)
    \/ \E f \in FolderIds, p \in FolderPatches : req_update_folder(f, p)
    \/ \E f \in DeletedFolders : req_delete_folder(f)
    \/ \E u \in UserIds, f \in NewDeviceFolders : register_device(u, "dev1", f)
    \/ \E u \in UserIds, d \in DeviceIds : read_device(u, d)
    \/ \E u \in UserIds, t \in TenantIds : tenant_read_devices(u, t)
    \/ \E u \in UserIds, d \in MovedDevices, f \in DeviceFolders : update_device(u, d, f)
    \/ \E u \in UserIds, d \in DeviceIds : delete_device(u, d)
    \/ \E u \in UserIds, t \in TenantIds : req_get_tenant_tags(u, t)
    \/ \E u \in UserIds : req_user_get_tenants(u)
    \/ \E u \in UserIds : req_user_get_folders(u)
    \/ \E u \in UserIds : req_user_get_devices(u)
    \/ \E u \in UserIds : req_tenant_get_tenants(u)
    \/ \E u \in UserIds : req_folder_get_folders(u)

\* the store the folder requests start from: an admin, a user who is a
\* member of the first tenant, two tenants, and a folder under the root of
\* the first tenant
FolderSeedDb ==
    LET d1 == create_user(EmptyDb, "a@sia.com", PwGood).db
        d2 == create_user(d1, "b@sia.com", PwGood).db
        d3 == assign_role(d2, 1, ADMIN_ROLE_ID).db
        d4 == create_tenant(d3, "tenant1").db
        d5 == create_tenant(d4, "tenant2").db
        d6 == assign_tenant(d5, 2, 1).db
    IN  create_folder(d6, [name |-> "lab", tenant_id |-> 1, parent_id |-> NULL]).db

InitFolder ==
    /\ users = FolderSeedDb.users
    /\ tenants = FolderSeedDb.tenants
    /\ members = FolderSeedDb.members
    /\ folders = FolderSeedDb.folders
    /\ devices = FolderSeedDb.devices
    /\ entities = FolderSeedDb.entities
    /\ tags = FolderSeedDb.tags
    /\ entityTags = FolderSeedDb.entityTags
    /\ InitAuth

MaxFolderEntities == 8

\* inputs of the folder requests
FolderTenants == {1, 2}
CreatedFolders == {[name |-> "lab", tenant_id |-> 1, parent_id |-> NULL],
                   [name |-> "lab", tenant_id |-> 2, parent_id |-> NULL]}
CreatedSubfolders == {[name |-> "sub", tenant_id |-> 1, parent_id |-> NULL]}
ParentIds == {1, 2}
SubfolderIds == {2, 3}
TenantPatch == [name |-> NULL_STR, tenant_id |-> 2, parent_id |-> NULL, tags |-> {}]
ParentPatch == [name |-> NULL_STR, tenant_id |-> NULL, parent_id |-> 2, tags |-> {}]
TagsPatch == [name |-> NULL_STR, tenant_id |-> NULL, parent_id |-> NULL, tags |-> {1, 2}]
FolderUpdates == {<<1, TenantPatch>>, <<1, TagsPatch>>, <<3, ParentPatch>>}
SubfolderUpdates == {<<1, 3, ParentPatch>>, <<2, 3, ParentPatch>>, <<2, 3, TenantPatch>>}

FolderNext ==
    /\ \/ \E t \in FolderTenants : req_get_root_folder(t)
       \/ \E f \in CreatedFolders : req_create_folder(f)
       \/ \E f \in CreatedSubfolders : req_create_subfolder(1, f)
       \/ \E u \in FolderUpdates : req_update_folder(u[1], u[2])
       \/ \E u \in SubfolderUpdates : req_update_subfolder(u[1], u[2], u[3])
       \/ req_delete_folder(3)
       \/ \E f \in SubfolderIds : req_delete_subfolder(1, f)
       \/ \E p \in ParentIds, u \in UserIds : req_get_subfolders(p, u)
    /\ Cardinality(entities') <= MaxFolderEntities

\* the tenant requests start from the empty store
MaxTenantEntities == 7

TenantNames == {"tenant1", "tenant2"}
TenantFolders == {[name |-> "lab", tenant_id |-> 1, parent_id |-> NULL],
                  [name |-> "lab", tenant_id |-> 2, parent_id |-> NULL]}

TenantNext ==
    /\ \/ \E u \in Usernames, p \in AuthRegisterPasswords : register_user(u, p)
       \/ \E n \in TenantNames : req_create_tenant(n)
       \/ \E t \in TenantIds : req_read_tenant(t)
       \/ \E t \in TenantIds : req_get_root_folder(t)
       \/ \E f \in TenantFolders : req_create_folder(f)
    /\ Cardinality(entities') <= MaxTenantEntities

\* the store the tag requests start from: an admin, two tenants, a folder
\* under the root of the first tenant (the root carries its tag) and a tag of
\* the second tenant
TagSeedDb ==
    LET d1 == create_user(EmptyDb, "a@sia.com", PwGood).db
        d2 == assign_role(d1, 1, ADMIN_ROLE_ID).db
        d3 == create_tenant(d2, "tenant1").db
        d4 == create_tenant(d3, "tenant2").db
        d5 == create_folder(d4, [name |-> "lab", tenant_id |-> 1, parent_id |-> NULL]).db
    IN  create_tag(d5, <<"red">>, 2).db

InitTag ==
    /\ users = TagSeedDb.users
    /\ tenants = TagSeedDb.tenants
    /\ members = TagSeedDb.members
    /\ folders = TagSeedDb.folders
    /\ devices = TagSeedDb.devices
    /\ entities = TagSeedDb.entities
    /\ tags = TagSeedDb.tags
    /\ entityTags = TagSeedDb.entityTags
    /\ InitAuth

MaxTags == 5

\* inputs of the tag requests
TagNames == {<<"red">>}
TagTenants == {1, 2}
TagUsers == {2}
TagRoles == {1, 3}
NoPatch == [username |-> NULL_STR, password |-> <<>>, role_id |-> NULL, tags |-> {}]
UserPatches == {[NoPatch EXCEPT !.tags = {3}],
                [NoPatch EXCEPT !.role_id = ADMIN_ROLE_ID],
                [NoPatch EXCEPT !.username = "a@sia.com"]}
TagFilterNames == {NULL_STR, "root"}
TagFilterIds == {<<NULL, NULL, 1, NULL>>, <<NULL, NULL, 9, NULL>>,
                 <<2, 2, NULL, 1>>, <<NULL, NULL, NULL, NULL>>}
TagFolders == {[name |-> "lab", tenant_id |-> 2, parent_id |-> NULL]}

TagNext ==
    /\ \/ \E u \in Usernames, p \in AuthRegisterPasswords : register_user(u, p)
       \/ \E u \in TagUsers, t \in TagTenants : req_assign_tenant(u, t)
       \/ \E u \in TagUsers, r \in TagRoles : req_assign_role(u, r)
       \/ \E u \in TagUsers, p \in UserPatches : req_update_user(u, p)
       \/ \E n \in TagNames, t \in TagTenants : req_create_tag(n, t)
       \/ \E f \in TagFolders : req_create_folder(f)
       \/ \E n \in TagFilterNames, i \in TagFilterIds : req_get_tags(n, i)
    /\ Cardinality(DOMAIN tags') <= MaxTags

\* the requests on the folder tree start from the store of the folder
\* requests; their inputs name a missing parent, the reserved name and
\* patches of one field
MaxTreeEntities == 9

TreeFolders == {[name |-> "/", tenant_id |-> 2, parent_id |-> NULL],
                [name |-> "lab", tenant_id |-> 2, parent_id |-> NULL],
                [name |-> "tmp", tenant_id |-> 2, parent_id |-> 9]}
NoFolderPatch == [name |-> NULL_STR, tenant_id |-> NULL, parent_id |-> NULL, tags |-> {}]
TreeUpdates == {<<1, [NoFolderPatch EXCEPT !.parent_id = 2]>>,
                <<2, [NoFolderPatch EXCEPT !.name = "/"]>>,
                <<2, [NoFolderPatch EXCEPT !.tenant_id = 2]>>,
                <<2, [NoFolderPatch EXCEPT !.name = "lab", !.tenant_id = 1]>>}

TreeNext ==
    /\ \/ \E t \in FolderTenants : req_get_root_folder(t)
       \/ \E f \in TreeFolders : req_create_folder(f)
       \/ \E f \in CreatedSubfolders : req_create_subfolder(1, f)
       \/ \E u \in TreeUpdates : req_update_folder(u[1], u[2])
    /\ Cardinality(entities') <= MaxTreeEntities

\* the interleaved creations start from two tenants without folders
RaceSeedDb ==
    LET d1 == create_tenant(EmptyDb, "tenant1").db
    IN  create_tenant(d1, "tenant2").db

InitRace ==
    /\ users = RaceSeedDb.users
    /\ tenants = RaceSeedDb.tenants
    /\ members = RaceSeedDb.members
    /\ folders = RaceSeedDb.folders
    /\ devices = RaceSeedDb.devices
    /\ entities = RaceSeedDb.entities
    /\ tags = RaceSeedDb.tags
    /\ entityTags = RaceSeedDb.entityTags
    /\ InitAuth

MaxRaceEntities == 6

RaceFolders == {[name |-> "lab", tenant_id |-> 1, parent_id |-> NULL],
                [name |-> "tmp", tenant_id |-> 1, parent_id |-> 9]}

RaceNext ==
    /\ \/ \E c \in Clients, f \in RaceFolders : create_folder_begin(c, f)
       \/ \E c \in Clients : root_insert(c)
       \/ \E c \in Clients : root_tag(c)
       \/ \E c \in Clients : folder_insert(c)
       \/ \E c \in Clients : folder_tag(c)
       \/ \E c \in Clients : folder_tag_fails(c)
    /\ Cardinality(entities') <= MaxRaceEntities

Next == AuthNext \/ AccessNext \/ FolderNext \/ TenantNext \/ TagNext \/ TreeNext \/ RaceNext

Spec == Init /\ [][Next]_vars

SpecAuth == Init /\ [][AuthNext]_vars

SpecAccess == InitAccess /\ [][AccessNext]_vars

SpecFolder == InitFolder /\ [][FolderNext]_vars

SpecTenant == Init /\ [][TenantNext]_vars

SpecTag == InitTag /\ [][TagNext]_vars

SpecTree == InitFolder /\ [][TreeNext]_vars

SpecRace == InitRace /\ [][RaceNext]_vars

-----------------------------------------------------------------------------
(* Refresh-token rotation, logout and login *)

\* the rotate request of client c has passed the lookup and awaits its body
InFlightRotate(c, value) == req[c].pc = "refresh_tokens" /\ req[c].tok = value

\* the answer the body of an in-flight rotate of this token would give now
RotateOutcome(value) == create_refresh_token(tokens[value].user_id, value).error

\* C1: rotation is forward-only: once rotate(r) has succeeded, r never passes
\* the lookup of a later rotate again, whatever happened in between.
C1_RotationForwardOnly ==
    \A x \in rotations : ~valid_refresh_token(x.old)

\* C1 case: a rotated-away token was presented again and rejected
C1_Witness ==
    /\ resp.op = "refresh_tokens"
    /\ resp.result = "InvalidRefreshToken"
    /\ resp.arg \in reused

LoggedOutChain(t) == \E l \in loggedOut : t \in Chain(tokens, l)

\* C3: the token a rotation returned stays usable, while it is unexpired, not
\* logged out and not itself rotated, also after its predecessor was
\* presented again and rejected.
C3_SuccessorSurvivesReuse ==
    \A x \in rotations :
        (x.old \in reused /\ ~tokens[x.new].expired /\ ~LoggedOutChain(x.new)
            /\ ~Rotated(x.new))
        => valid_refresh_token(x.new)

\* C3 case: R1 rotated to R2, R1 presented again and rejected, then R2 rotated
C3_Witness ==
    /\ resp.op = "refresh_tokens"
    /\ resp.result = "ok"
    /\ \E x \in rotations : x.new = resp.arg /\ x.old \in reused

\* C4: after a successful logout(r) the token is revoked: it fails the lookup
\* of every later rotate, and a rotate still in flight on it issues nothing.
C4_LogoutRevokes ==
    /\ \A r \in loggedOut : ~valid_refresh_token(r)
    /\ \A c \in Clients, r \in loggedOut :
          InFlightRotate(c, r) => RotateOutcome(r) = "InvalidRefreshToken"

\* C4 case: a rotate of a logged-out token was attempted and rejected
C4_Witness ==
    /\ resp.op = "refresh_tokens"
    /\ resp.result = "InvalidRefreshToken"
    /\ resp.arg \in loggedOut

\* C5: logout is idempotent: a logout of a token on which a logout already
\* succeeded completes without error.
C5_LogoutIdempotent ==
    (resp.op = "logout_user" /\ resp.arg \in loggedOut) => resp.result = "ok"

\* the error a login with these credentials ends in ("ok" when it succeeds)
LoginError(username, password) == authenticate_user(Db, username, password).error

\* C6: every failing login fails with one and the same error, whether the
\* username is unknown or the password does not match: the error the last
\* login ended in is the error every failing login ends in.
C6_LoginErrorsIndistinguishable ==
    (resp.op = "login" /\ resp.result # "ok")
    => \A u \in Usernames, p \in AuthLoginPasswords :
           LoginError(u, p) # "ok" => LoginError(u, p) = resp.result

-----------------------------------------------------------------------------
(* Access claims, over SpecAccess.  The requests of SpecAccess leave their  *)
(* outcome in resp; a read request leaves the store as it found it, so the  *)
(* store beside a read's outcome is the store the read ran on.              *)

Admin(u) == roles[users[u].role_id] = "admin"

Memberships(u) == {t \in DOMAIN tenants : <<t, u>> \in members}

Permitted(u, t) == Admin(u) \/ <<t, u>> \in members

\* C7: has_access_to_tenant permits exactly when the user is admin or the
\* pair (user, tenant) is in the membership table; the tenant's devices and
\* the tenant's tags are served only under that condition and refused with
\* PermissionDenied otherwise.
C7_TenantGate ==
    /\ \A u \in UserIds, t \in TenantIds :
          has_access_to_tenant(Db, t, u) <=> Permitted(u, t)
    /\ resp.op = "tenant_read_devices" =>
          /\ resp.result = "ok" <=> Permitted(resp.arg[1], resp.arg[2])
          /\ resp.result = "PermissionDenied" <=> ~Permitted(resp.arg[1], resp.arg[2])
    /\ (resp.op = "get_tenant_tags" /\ resp.arg[2] \in DOMAIN tenants) =>
          /\ resp.result = "ok" <=> Permitted(resp.arg[1], resp.arg[2])
          /\ resp.result = "PermissionDenied" <=> ~Permitted(resp.arg[1], resp.arg[2])

\* a non-admin member of one tenant only is refused the tags of the other
C7_Witness ==
    /\ resp.op = "get_tenant_tags"
    /\ resp.result = "PermissionDenied"
    /\ ~Admin(resp.arg[1])
    /\ Memberships(resp.arg[1]) # {}

\* C8: the user-service listings of a non-admin with memberships M are
\* exactly the devices whose folder is of a tenant in M, the folders of M
\* and the tenants of M (also for the tenant-service get_tenants); an admin
\* gets every device, folder and tenant.
C8_ListingScoping ==
    /\ resp.op = "user.get_devices" =>
          resp.out = IF Admin(resp.arg) THEN DOMAIN devices
                     ELSE {d \in DOMAIN devices :
                              \E f \in DOMAIN folders :
                                  /\ devices[d].folder_id = f
                                  /\ folders[f].tenant_id \in Memberships(resp.arg)}
    /\ resp.op = "user.get_folders" =>
          resp.out = IF Admin(resp.arg) THEN DOMAIN folders
                     ELSE {f \in DOMAIN folders :
                              folders[f].tenant_id \in Memberships(resp.arg)}
    /\ resp.op \in {"user.get_tenants", "tenant.get_tenants"} =>
          resp.out = IF Admin(resp.arg) THEN DOMAIN tenants
                     ELSE Memberships(resp.arg)

\* a non-admin lists some but not all devices after the devices changed
C8_Witness ==
    /\ resp.op = "user.get_devices"
    /\ ~Admin(resp.arg)
    /\ resp.out # {}
    /\ resp.out # DOMAIN devices
    /\ devices # SeedDb.devices
    /\ folders # SeedDb.folders

CanRead(u, d) == Permitted(u, folders[devices[d].folder_id].tenant_id)

CanEdit(u, d) ==
    Admin(u) \/ (CanRead(u, d) /\ roles[users[u].role_id] \in {"admin", "owner"})

\* C9: reading an existing device is permitted exactly to admins and members
\* of the device's tenant; updating and deleting it is refused exactly when
\* the user is neither admin nor a member with the owner tier, so a member
\* with role user reads the device and cannot edit it.
C9_DeviceReadEdit ==
    [][/\ (resp'.op = "read_device" /\ resp'.arg[2] \in DOMAIN devices) =>
            /\ resp'.result = "ok" <=> CanRead(resp'.arg[1], resp'.arg[2])
            /\ resp'.result = "PermissionDenied" <=> ~CanRead(resp'.arg[1], resp'.arg[2])
       /\ (resp'.op \in {"update_device", "delete_device"}
                /\ resp'.arg[2] \in DOMAIN devices) =>
            /\ resp'.result = "ok" => CanEdit(resp'.arg[1], resp'.arg[2])
            /\ resp'.result = "PermissionDenied" <=> ~CanEdit(resp'.arg[1], resp'.arg[2])
      ]_vars

\* a member with role user is refused the update of a device of its tenant
C9_Witness ==
    /\ resp.op = "update_device"
    /\ resp.result = "PermissionDenied"
    /\ roles[users[resp.arg[1]].role_id] = "user"
    /\ resp.arg[2] \in DOMAIN devices
    /\ CanRead(resp.arg[1], resp.arg[2])

\* C10: the folder-service get_folders gives an admin all folders with no
\* parent, a non-admin with memberships the folders with no parent of the
\* tenants of the memberships, a user without membership
\* UserTenantNotAssigned, and never a folder that has a parent.
C10_VisibleRoots ==
    resp.op = "folder.get_folders" =>
        /\ Admin(resp.arg) =>
              /\ resp.result = "ok"
              /\ resp.out = {f \in DOMAIN folders : folders[f].parent_id = NULL}
        /\ (~Admin(resp.arg) /\ Memberships(resp.arg) # {}) =>
              /\ resp.result = "ok"
              /\ resp.out = {f \in DOMAIN folders :
                                /\ folders[f].tenant_id \in Memberships(resp.arg)
                                /\ folders[f].parent_id = NULL}
        /\ (~Admin(resp.arg) /\ Memberships(resp.arg) = {}) =>
              resp.result = "UserTenantNotAssigned"
        /\ resp.result = "ok" => \A f \in resp.out : folders[f].parent_id = NULL

\* a non-admin member gets roots while its tenants also hold folders with a
\* parent and other tenants hold roots
C10_Witness ==
    /\ resp.op = "folder.get_folders"
    /\ resp.result = "ok"
    /\ ~Admin(resp.arg)
    /\ resp.out # {}
    /\ \E f \in DOMAIN folders :
          folders[f].tenant_id \in Memberships(resp.arg) /\ folders[f].parent_id # NULL
    /\ \E f \in DOMAIN folders :
          folders[f].tenant_id \notin Memberships(resp.arg) /\ folders[f].parent_id = NULL

-----------------------------------------------------------------------------
(* Folder claims, over SpecFolder *)

\* C11: right after get_root_folder(T), a second get_root_folder(T) returns
\* the same folder and adds no folder, entity or tag (it leaves the whole
\* store as it is).
C11_RootIdempotent ==
    resp.op = "get_root_folder" =>
        /\ get_root_folder(Db, resp.arg).out = resp.out
        /\ get_root_folder(Db, resp.arg).db = Db

\* the call made the root of the second tenant, which had none
C11_Witness ==
    /\ resp.op = "get_root_folder"
    /\ resp.out \notin DOMAIN FolderSeedDb.folders
    /\ resp.out \in DOMAIN folders
    /\ Cardinality(DOMAIN folders) = Cardinality(DOMAIN FolderSeedDb.folders) + 1

\* C12: every folder with a parent is of the tenant of its parent.
C12_TenantConsistency ==
    \A f \in DOMAIN folders :
        (folders[f].parent_id # NULL /\ folders[f].parent_id \in DOMAIN folders) =>
            folders[f].tenant_id = folders[folders[f].parent_id].tenant_id


\* the folders of the tenant that carry the name, before the request
FoldersNamed(name, tenant_id) ==
    {f \in DOMAIN folders : folders[f].name = name /\ folders[f].tenant_id = tenant_id}

\* C13: create_folder with a name some folder of the same tenant has fails with
\* FolderNameTaken and leaves every table as it was; with a name only folders
\* of other tenants have, it succeeds and adds the folder.
C13_NameUniquePerTenant ==
    [][resp'.op = "create_folder" /\ resp'.arg.tenant_id \in DOMAIN tenants =>
        LET folder == resp'.arg
        IN  /\ FoldersNamed(folder.name, folder.tenant_id) # {} =>
                /\ resp'.result = "FolderNameTaken"
                /\ UNCHANGED <<users, tenants, members, folders, devices,
                               entities, tags, entityTags>>
            /\ (/\ FoldersNamed(folder.name, folder.tenant_id) = {}
                /\ \E t \in DOMAIN tenants : FoldersNamed(folder.name, t) # {}
                /\ folder.parent_id = NULL) =>
                /\ resp'.result = "ok"
                /\ resp'.out \notin DOMAIN folders
                /\ folders'[resp'.out].name = folder.name
                /\ folders'[resp'.out].tenant_id = folder.tenant_id]_vars

\* the name is refused in tenant 1 and two tenants hold a folder of the name
C13_Witness ==
    /\ resp.op = "create_folder" /\ resp.result = "FolderNameTaken"
    /\ \E f, g \in DOMAIN folders :
        /\ folders[f].name = resp.arg.name /\ folders[g].name = resp.arg.name
        /\ folders[f].tenant_id # folders[g].tenant_id


-----------------------------------------------------------------------------
(* Tenant and user creation, over SpecTenant *)

StoreUnchanged ==
    UNCHANGED <<users, tenants, members, folders, devices, entities, tags, entityTags>>

\* C14: creating a user under a username some user has fails with
\* UsernameTaken, creating a tenant under a name some tenant has fails with
\* TenantNameTaken, both leave every table as it was, and no two users share a
\* username and no two tenants a name.
C14_NamesGloballyUnique ==
    /\ [](/\ \A u, v \in DOMAIN users : users[u].username = users[v].username => u = v
          /\ \A s, t \in DOMAIN tenants : tenants[s].name = tenants[t].name => s = t)
    /\ [][/\ (/\ resp'.op = "register_user"
              /\ \E u \in DOMAIN users : users[u].username = resp'.arg) =>
                    resp'.result = "UsernameTaken" /\ StoreUnchanged
          /\ (/\ resp'.op = "create_tenant"
              /\ \E t \in DOMAIN tenants : tenants[t].name = resp'.arg) =>
                    resp'.result = "TenantNameTaken" /\ StoreUnchanged]_vars

\* a tenant name is refused with both users and both tenants in the store
C14_Witness ==
    /\ resp.op = "create_tenant" /\ resp.result = "TenantNameTaken"
    /\ Cardinality(DOMAIN users) = 2 /\ Cardinality(DOMAIN tenants) = 2


\* C16: a tenant that was just created has no folder: the response of the
\* creation lists none, no folder row carries its id, and reading it right
\* after the creation lists none.
C16_NewTenantHasNoFolders ==
    /\ [](resp.op = "create_tenant" /\ resp.result = "ok" =>
            /\ resp.out.folders = {}
            /\ \A f \in DOMAIN folders : folders[f].tenant_id # resp.out.id)
    /\ [][(/\ resp.op = "create_tenant" /\ resp.result = "ok"
           /\ resp'.op = "read_tenant" /\ resp'.arg = resp.out.id) =>
                resp'.result = "ok" /\ resp'.out.folders = {}]_vars

\* the second tenant was just created and the first one has folders
C16_Witness ==
    /\ resp.op = "create_tenant" /\ resp.result = "ok" /\ resp.out.id = 2
    /\ \E f \in DOMAIN folders : folders[f].tenant_id = 1


\* the tags the associations et attach to the entity
TagsOf(et, entity) == {a[2] : a \in {b \in et : b[1] = entity}}

\* C15 as stated: right after a tenant is created it has one root folder "/"
\* without parent, and that root carries exactly one tag.
C15_RootOnTenantCreation ==
    resp.op = "create_tenant" /\ resp.result = "ok" =>
        /\ Cardinality(RootsOf(folders, resp.out.id)) = 1
        /\ \A f \in RootsOf(folders, resp.out.id) :
                Cardinality(TagsOf(entityTags, folders[f].entity_id)) = 1

\* C15 amended: creating a tenant creates no root folder; a successful
\* create_folder for a tenant without root folder creates its root "/"
\* without parent, and that root then carries exactly one tag, of the tenant.
C15_RootOnFirstFolder ==
    [][/\ resp'.op = "create_tenant" /\ resp'.result = "ok" =>
            RootsOf(folders', resp'.out.id) = {}
       /\ (/\ resp'.op = "create_folder" /\ resp'.result = "ok"
           /\ RootsOf(folders, resp'.arg.tenant_id) = {}) =>
            /\ Cardinality(RootsOf(folders', resp'.arg.tenant_id)) = 1
            /\ \A f \in RootsOf(folders', resp'.arg.tenant_id) :
                /\ f # resp'.out
                /\ Cardinality(TagsOf(entityTags', folders'[f].entity_id)) = 1
                /\ \A g \in TagsOf(entityTags', folders'[f].entity_id) :
                        tags'[g].tenant_id = resp'.arg.tenant_id]_vars

\* the second tenant has got its root through its first folder
C15_Witness ==
    /\ resp.op = "create_folder" /\ resp.result = "ok" /\ resp.arg.tenant_id = 2
    /\ Cardinality({f \in DOMAIN folders : folders[f].tenant_id = 2}) = 2
    /\ \E f \in RootsOf(folders, 2) : Cardinality(TagsOf(entityTags, folders[f].entity_id)) = 1


-----------------------------------------------------------------------------
(* Folder tags and the folder tree, over SpecFolder *)

\* C17: after a successful create_folder the entity of the new folder has
\* exactly one tag attached, and that tag is of the folder's tenant.
C17_NewFolderOneTag ==
    resp.op = "create_folder" /\ resp.result = "ok" =>
        LET attached == TagsOf(entityTags, folders[resp.out].entity_id)
        IN  /\ Cardinality(attached) = 1
            /\ \A g \in attached : tags[g].tenant_id = folders[resp.out].tenant_id


\* the store after the step
DbAfter == [users |-> users', tenants |-> tenants', members |-> members',
            folders |-> folders', devices |-> devices', entities |-> entities',
            tags |-> tags', entityTags |-> entityTags']

ChildrenOf(fs, parent_folder_id) ==
    {f \in DOMAIN fs : fs[f].parent_id = parent_folder_id}

\* C18: get_subfolders(P) answers exactly the folders whose parent_id is P, the
\* same set for an admin and for another user; after create_subfolder(P, s) on
\* a root without children it answers {s}, and after delete_subfolder(P, s) of
\* the only child it answers the empty set.
C18_SubfoldersAreChildren ==
    /\ [](/\ resp.op = "get_subfolders" /\ resp.result = "ok" =>
                resp.out = ChildrenOf(folders, resp.arg[1])
          /\ \A p \in DOMAIN folders, u, v \in DOMAIN users :
                /\ get_subfolders(Db, p, u).error = "ok"
                /\ get_subfolders(Db, p, u).out = get_subfolders(Db, p, v).out)
    /\ [][/\ (/\ resp'.op = "create_subfolder" /\ resp'.result = "ok"
              /\ folders[resp'.arg[1]].parent_id = NULL
              /\ ChildrenOf(folders, resp'.arg[1]) = {}) =>
                \A u \in DOMAIN users :
                    get_subfolders(DbAfter, resp'.arg[1], u).out = {resp'.out}
          /\ (/\ resp'.op = "delete_subfolder" /\ resp'.result = "ok"
              /\ ChildrenOf(folders, resp'.arg[1]) = {resp'.arg[2]}) =>
                \A u \in DOMAIN users :
                    get_subfolders(DbAfter, resp'.arg[1], u).out = {}]_vars

\* the user who is no admin lists the one child of the root, made by
\* create_subfolder after the root had lost its first child
C18_Witness ==
    /\ resp.op = "get_subfolders" /\ resp.result = "ok" /\ resp.arg = <<1, 2>>
    /\ Cardinality(resp.out) = 1
    /\ \A f \in resp.out : folders[f].name = "sub"


\* the folder an update request names
UpdatedFolder(r) == IF r.op = "update_folder" THEN r.arg[1] ELSE r.arg[2]

\* C19: a successful update_folder, called directly or through
\* update_subfolder, leaves the parent_id of the folder and its set of
\* children as they were.
C19_UpdateKeepsStructure ==
    [][resp'.op \in {"update_folder", "update_subfolder"} /\ resp'.result = "ok" =>
        LET id == UpdatedFolder(resp')
        IN  /\ folders'[id].parent_id = folders[id].parent_id
            /\ ChildrenOf(folders', id) = ChildrenOf(folders, id)]_vars


\* C20: every association of an entity with a tag is within one tenant: a
\* folder's tags are of the folder's tenant, a user's tags are of a tenant
\* the user is a member of.
C20_TagTenantScoping ==
    \A a \in entityTags :
        /\ \A f \in DOMAIN folders :
                folders[f].entity_id = a[1] => tags[a[2]].tenant_id = folders[f].tenant_id
        /\ \A u \in DOMAIN users :
                users[u].entity_id = a[1] => <<tags[a[2]].tenant_id, u>> \in members


-----------------------------------------------------------------------------
(* Tags, over SpecTag *)

\* C21: update_user with tags of a tenant the user is no member of fails with
\* EntityTenantRelationshipMissing and writes nothing; for a member of the
\* tags' tenants it succeeds and the user's entity carries exactly those tags.
C21_UserTagsNeedMembership ==
    [][resp'.op = "update_user" /\ resp'.arg[2].tags # {} =>
        LET user_id == resp'.arg[1]
            tag_ids == resp'.arg[2].tags
        IN  IF \E g \in tag_ids : <<tags[g].tenant_id, user_id>> \notin members
            THEN resp'.result = "EntityTenantRelationshipMissing" /\ StoreUnchanged
            ELSE /\ resp'.result = "ok"
                 /\ TagsOf(entityTags', users'[user_id].entity_id) = tag_ids]_vars


\* C22: no two tags of one tenant have the same name (create_tag refuses a
\* name the tenant already has).
C22_TagNamesUniquePerTenant ==
    \A g, h \in DOMAIN tags :
        tags[g].name = tags[h].name /\ tags[g].tenant_id = tags[h].tenant_id => g = h


-----------------------------------------------------------------------------
(* Roles, over SpecTag *)

Admins(us) == {u \in DOMAIN us : us[u].role_id = ADMIN_ROLE_ID}

\* a registration stores the new user with the role named user and leaves
\* the admins as they were
RegistrationGivesUserRole ==
    resp'.op = "register_user" =>
        /\ Admins(users') = Admins(users)
        /\ resp'.result = "ok" =>
            /\ resp'.out \notin DOMAIN users
            /\ roles[users'[resp'.out].role_id] = "user"

\* C29 as stated: a registration stores the new user with the role named
\* user and leaves the admins as they were, and the role of a user changes
\* in an assign_role request only.
C29_OnlyAssignRoleChangesRole ==
    [][/\ RegistrationGivesUserRole
       /\ \A u \in DOMAIN users :
            (u \in DOMAIN users' /\ users'[u].role_id # users[u].role_id) =>
                resp'.op = "assign_role"]_vars

\* C29 amended: a registration stores the new user with the role named user
\* and leaves the admins as they were, and the role of a user changes only in
\* an assign_role request or in an update_user request whose patch sets
\* role_id.
C29_RegistrationKeepsAdmins ==
    [][/\ RegistrationGivesUserRole
       /\ \A u \in DOMAIN users :
            (u \in DOMAIN users' /\ users'[u].role_id # users[u].role_id) =>
                \/ resp'.op = "assign_role"
                \/ resp'.op = "update_user" /\ resp'.arg[2].role_id # NULL]_vars

\* a user has registered next to the admin
C29_Witness ==
    /\ resp.op = "register_user" /\ resp.result = "ok"
    /\ roles[users[resp.out].role_id] = "user"
    /\ Admins(users) = {1}


\* the entities of the objects the ids of a get_tags request name
NamedEntities(ids) ==
    {get_entity_id(users, ids[1]), get_entity_id(tenants, ids[2]),
     get_entity_id(folders, ids[3]), get_entity_id(devices, ids[4])} \ {NULL}

\* C30: get_tags with some id supplied answers only tags attached to the
\* entity of a supplied object that exists, matching the name filter; when
\* no supplied id finds an object the answer is empty.
C30_TagsOfNamedEntitiesOnly ==
    (/\ resp.op = "get_tags"
     /\ \E i \in 1..4 : resp.arg[2][i] # NULL) =>
        /\ \A g \in resp.out :
            /\ \E e \in NamedEntities(resp.arg[2]) : <<e, g>> \in entityTags
            /\ resp.arg[1] # NULL_STR => NameLike(tags[g].name, resp.arg[1])
        /\ NamedEntities(resp.arg[2]) = {} => resp.out = {}


-----------------------------------------------------------------------------
(* Entities, the folder tree and folder names, over SpecFolder *)

\* the owners of the entity: <<table, id>> of every row that refers to it
OwnersOf(e) ==
    {<<"user", u>> : u \in {x \in DOMAIN users : users[x].entity_id = e}}
    \cup {<<"tenant", t>> : t \in {x \in DOMAIN tenants : tenants[x].entity_id = e}}
    \cup {<<"folder", f>> : f \in {x \in DOMAIN folders : folders[x].entity_id = e}}
    \cup {<<"device", d>> : d \in {x \in DOMAIN devices : devices[x].entity_id = e}}

\* C26: every entity has exactly one owner among the users, tenants, folders
\* and devices, and every owner refers to an entity that exists.
C26_EntityOwnership ==
    /\ \A e \in entities : Cardinality(OwnersOf(e)) = 1
    /\ \A u \in DOMAIN users : users[u].entity_id \in entities
    /\ \A t \in DOMAIN tenants : tenants[t].entity_id \in entities
    /\ \A f \in DOMAIN folders : folders[f].entity_id \in entities
    /\ \A d \in DOMAIN devices : devices[d].entity_id \in entities

\* a folder is its own ancestor when following parent_id from it, for as many
\* steps as there are folders, comes back to it
RECURSIVE Ancestors(_, _, _)
Ancestors(fs, f, n) ==
    IF n = 0 \/ f \notin DOMAIN fs \/ fs[f].parent_id = NULL THEN {}
    ELSE {fs[f].parent_id} \cup Ancestors(fs, fs[f].parent_id, n - 1)

\* C27: no folder is its own ancestor.
C27_FoldersFormForest ==
    \A f \in DOMAIN folders : f \notin Ancestors(folders, f, Cardinality(DOMAIN folders))


\* C28: no two folders of one tenant have the same name.
C28_FolderNamesUniquePerTenant ==
    \A f, g \in DOMAIN folders :
        (folders[f].name = folders[g].name /\ folders[f].tenant_id = folders[g].tenant_id)
            => f = g

\* C23: create_folder with a parent_id that finds no folder (for an existing
\* tenant and a free name) fails with FolderNotFound and leaves every table
\* as it was: no entity, no root folder and no tag is written.
C23_MissingParentWritesNothing ==
    [][(/\ resp'.op = "create_folder"
        /\ resp'.arg.tenant_id \in DOMAIN tenants
        /\ FoldersNamed(resp'.arg.name, resp'.arg.tenant_id) = {}
        /\ resp'.arg.parent_id # NULL
        /\ resp'.arg.parent_id \notin DOMAIN folders) =>
            resp'.result = "FolderNotFound" /\ StoreUnchanged]_vars


-----------------------------------------------------------------------------
(* Interleaved folder creation, over SpecRace *)

\* the name of the tag that the creation of the folder makes for it
AutoTagName(f) ==
    IF folders[f].name = "/" /\ folders[f].parent_id = NULL
    THEN <<"folder", "root", "tenant", ToString(folders[f].tenant_id), "tag">>
    ELSE <<"folder", Slug(tenants[folders[f].tenant_id].name), Slug(folders[f].name), "tag">>

\* C24: whenever a folder row is in the store, the tag made for it is in the
\* store and attached to the folder's entity: no state between the steps of a
\* creation, and no state after a failed tag step, shows the folder without it.
C24_FolderAndTagAtomic ==
    \A f \in DOMAIN folders :
        \E g \in TagsOf(entityTags, folders[f].entity_id) : tags[g].name = AutoTagName(f)

\* C25: every tenant has at most one root folder.
C25_AtMostOneRoot ==
    \A t \in DOMAIN tenants : Cardinality(RootsOf(folders, t)) <= 1

=============================================================================
